---- MODULE Spec2Model ----
(***************************************************************************)
(* The favourite-colour REST service of deno-restapi-demo, in its two      *)
(* source variants:                                                        *)
(*   "server"  - src/server.js          (timestamp ids, favourites, /me)   *)
(*   "part000" - src/unnamed/part_000   (counter ids, field validation)    *)
(* A request handler is an async function: it runs from one await to the   *)
(* next without interruption, and other handlers run in between.  Every    *)
(* action below is one such run of one handler.                            *)
(***************************************************************************)
EXTENDS Integers, Sequences, FiniteSets, TLC

(* ---------------------------- bounds ---------------------------------- *)
\* handler invocations that can be in flight at the same time
NReq == 2
\* records POST /api/colors creates before posting stops
MaxPosts == 2
\* tokens signed for one username before its logins stop
MaxTokens == 1
\* clock ticks (of any size) before the clock stops
MaxTicks == 1
\* milliseconds the clock may advance between two clock reads of one run
MaxDrift == 1
\* Date.now() when the service starts (nine digits here; thirteen today)
Clock0 == 100000998

(* ------------------------ program constants --------------------------- *)
\* EXP_TIME = 60 * 60 * 24, the token and cookie lifetime in seconds
EXP_TIME == 86400
\* Date.now() / 1000: milliseconds per second
MsPerSec == 1000

Variants == {"server", "part000"}
Reqs == 1 .. NReq
Users == {"alice", "bob"}
Passwords == {"pw1", "pw2"}
Salts == {"s1", "s2"}

VARIABLES
    variant,    \* which source file is running
    envSecret,  \* Deno.env.get('JWT_SECRET'): a string, or "" when not set
    clock,      \* Date.now(), in milliseconds
    ticks,      \* clock ticks taken so far
    kvUsers,    \* kv ['users', username] -> {username, hashedPassword}
    kvColors,   \* kv ['colors', id] -> record
    kvFav,      \* kv ['favorites', username, id] -> true, as a set of pairs
    kvCounter,  \* kv ['counter', 'colors'] (0: the key is absent)
    jar,        \* the auth_token cookie the browser holds
    issued,     \* every token sign() has produced -> the clock reads behind it
    req,        \* per handler invocation: where it is suspended, its locals
    resp,       \* the response the last step sent (NoResp: it sent none)
    created,    \* the {username, password} POST /api/signup has answered 201
    posted      \* the records POST /api/colors has responded with

vars == <<variant, envSecret, clock, ticks, kvUsers, kvColors, kvFav,
          kvCounter, jar, issued, req, resp, created, posted>>

store == <<kvUsers, kvColors, kvFav, kvCounter>>

(* ------------------------------ values -------------------------------- *)
\* Number.prototype.toString(): the decimal digits of n, as a string
RECURSIVE toString(_)
toString(n) ==
    IF n < 10 THEN <<n>> ELSE Append(toString(n \div 10), n % 10)

\* the order of two strings as key parts of Deno KV (byte-wise)
RECURSIVE StrLess(_, _)
StrLess(a, b) ==
    IF b = <<>> THEN FALSE
    ELSE IF a = <<>> THEN TRUE
    ELSE IF Head(a) # Head(b) THEN Head(a) < Head(b)
    ELSE StrLess(Tail(a), Tail(b))

\* ids are numbers in part_000 (getNextId) and strings in server.js
NoId == IF variant = "server" THEN <<>> ELSE 0

\* the order in which kv.list({prefix: ['colors']}) yields two keys
KeyLess(a, b) == IF variant = "server" THEN StrLess(a, b) ELSE a < b

NoRecord == [id |-> NoId, author |-> "", color |-> "", comment |-> "",
             createdAt |-> 0]

\* what JSON.parse(body['record']) can be: the fields the page sends, and a
\* record that also carries id, author and createdAt of the client's choosing
SpoofId == IF variant = "server" THEN <<7>> ELSE 7
ClientRecords ==
    { [NoRecord EXCEPT !.color = "red", !.comment = "x"],
      [id |-> SpoofId, author |-> "bob", color |-> "blue", comment |-> "y",
       createdAt |-> 1] }

NoHash == [salt |-> "", pw |-> ""]
\* bcrypt hash(password): a fresh salt and the one-way image of the password
hash(password, salt) == [salt |-> salt, pw |-> password]
\* bcrypt verify(password, hashedPassword)
verify(password, hashedPassword) == hashedPassword.pw = password

NoUser == [username |-> "", hashedPassword |-> NoHash]

\* Math.floor(Date.now() / 1000)
NowSec(ms) == ms \div MsPerSec

NoToken == [sub |-> "", iat |-> 0, exp |-> 0, sig |-> ""]

\* const JWT_SECRET: server.js falls back to a literal, part_000 does not
JWT_SECRET ==
    IF variant = "server"
    THEN (IF envSecret # "" THEN envSecret ELSE "your-secret-key")
    ELSE envSecret

\* Serving with a fault: the service starts whatever the secret is
ServingWithoutSecret == TRUE

\* jwt({secret, cookie}) throws while the module loads when secret is empty,
\* so Deno.serve is never reached
Serving == JWT_SECRET # ""

\* sign(payload, JWT_SECRET)
sign(payload, secret) == [payload EXCEPT !.sig = secret]

\* TokenValid with an off-by-one fault: a token is still taken in the second
\* of its exp
TokenValidInExpSecond(tok, ms) ==
    /\ tok.sig = JWT_SECRET
    /\ ~(tok.exp # 0 /\ tok.exp < NowSec(ms))
    /\ ~(tok.iat # 0 /\ NowSec(ms) < tok.iat)

\* the jwt middleware's verification of a token at clock value ms: signature,
\* then exp (expired when exp <= now), then iat (not yet issued)
TokenValid(tok, ms) ==
    /\ tok.sig = JWT_SECRET
    /\ ~(tok.exp # 0 /\ tok.exp <= NowSec(ms))
    /\ ~(tok.iat # 0 /\ NowSec(ms) < tok.iat)

\* Gate with a fault: any cookie is taken, unverified
GateTakesAnyCookie(tok) == tok # NoToken

\* app.use('/api/*', jwt(...)): a cookie must be present and valid
Gate(tok) == tok # NoToken /\ TokenValid(tok, clock)

\* tokens no sign() of the service produced
ForgedTokens ==
    { [sub |-> "alice", iat |-> 0, exp |-> 0, sig |-> "guess"] }

\* the cookies a request can carry
Cookies == {NoToken} \cup DOMAIN issued \cup ForgedTokens

NoCookie == [tok |-> NoToken, maxAge |-> 0]

(* ------------------------- handler invocations ------------------------ *)
IdleReq ==
    [pc |-> "idle", sub |-> "", username |-> "", password |-> "",
     user |-> NoUser, hashed |-> NoHash, payload |-> NoToken,
     readAt |-> [iat |-> 0, exp |-> 0], cookie |-> NoToken, before |-> {},
     record |-> NoRecord, id |-> NoId, existing |-> FALSE,
     list |-> <<>>, records |-> <<>>, favIds |-> {}]

NoResp ==
    [slot |-> 0, route |-> "", status |-> 0, message |-> "", username |-> "",
     password |-> "", cookie |-> NoToken, before |-> {},
     record |-> NoRecord, list |-> <<>>, favorite |-> FALSE, id |-> NoId,
     myPosts |-> <<>>, myFavorites |-> <<>>]

Resp(route, status, message) ==
    [NoResp EXCEPT !.route = route, !.status = status, !.message = message]

Idle(r) == req[r].pc = "idle"

\* the handler returns: its response is sent and its locals are gone.  The
\* response carries the request's cookie and, in before, what the service
\* had acknowledged when the request arrived
Respond(r, response) ==
    /\ resp' = [response EXCEPT !.slot = r, !.cookie = req[r].cookie,
                                !.before = req[r].before]
    /\ req' = [req EXCEPT ![r] = IdleReq]

\* the handler suspends at an await
Await(r, next) ==
    /\ req' = [req EXCEPT ![r] = next]
    /\ resp' = NoResp

Init ==
    /\ variant \in Variants
    /\ envSecret \in {"", "k3y"}
    /\ clock = Clock0
    /\ ticks = 0
    /\ kvUsers = <<>>
    /\ kvColors = <<>>
    /\ kvFav = {}
    /\ kvCounter = 0
    /\ jar = NoCookie
    /\ issued = <<>>
    /\ req = [r \in Reqs |-> IdleReq]
    /\ resp = NoResp
    /\ created = {}
    /\ posted = {}

\* kv.set(key, value) on a keyed collection
KvSet(kv, key, value) == (key :> value) @@ kv

(* ------------------------------ the clock ----------------------------- *)
\* the sizes of the clock's steps: a millisecond, and the jumps that take a
\* token signed at Clock0 to the last millisecond before its exp second and
\* to the first millisecond of it
TickSteps == {1, EXP_TIME * MsPerSec - 999, EXP_TIME * MsPerSec - 998}

\* the milliseconds that can pass between two clock reads of one run
Drifts == 0 .. MaxDrift

Tick(d) ==
    /\ ticks < MaxTicks
    /\ clock' = clock + d
    /\ ticks' = ticks + 1
    /\ resp' = NoResp
    /\ UNCHANGED <<variant, envSecret, store, jar, issued, req, created, posted>>

(* --------------------------- POST /api/signup ------------------------- *)
\* the fields of a JSON body; "" is an empty or missing field
UserInputs == Users \cup {""}
PasswordInputs == Passwords \cup {""}

\* the signups for a username that have been answered 201
Acknowledged(username) == {c \in created : c.username = username}

\* c.req.json(), and in part_000 the presence check of both fields
SignupStart(r, username, password) ==
    /\ Serving /\ Idle(r)
    /\ IF variant = "part000" /\ (username = "" \/ password = "")
       THEN Respond(r, [Resp("signup", 400, "required")
                           EXCEPT !.username = username,
                                  !.password = password])
       ELSE Await(r, [IdleReq EXCEPT !.pc = "signup_get",
                         !.before = Acknowledged(username),
                         !.username = username, !.password = password])
    /\ UNCHANGED <<variant, envSecret, clock, ticks, store, jar, issued, created,
                   posted>>

\* const userExists = await kv.get(['users', username])
SignupGet(r) ==
    /\ req[r].pc = "signup_get"
    /\ IF req[r].username \in DOMAIN kvUsers
       THEN Respond(r, [Resp("signup", 409, "taken")
                           EXCEPT !.username = req[r].username,
                                  !.password = req[r].password])
       ELSE Await(r, [req[r] EXCEPT !.pc = "signup_hash"])
    /\ UNCHANGED <<variant, envSecret, clock, ticks, store, jar, issued, created,
                   posted>>

\* const hashedPassword = await hash(password)
SignupHash(r, salt) ==
    /\ req[r].pc = "signup_hash"
    /\ Await(r, [req[r] EXCEPT !.pc = "signup_set",
                       !.hashed = hash(req[r].password, salt)])
    /\ UNCHANGED <<variant, envSecret, clock, ticks, store, jar, issued, created,
                   posted>>

\* await kv.set(['users', username], {username, hashedPassword}); 201
SignupSet(r) ==
    /\ req[r].pc = "signup_set"
    /\ kvUsers' = KvSet(kvUsers, req[r].username,
                        [username |-> req[r].username,
                         hashedPassword |-> req[r].hashed])
    /\ created' = created \cup {[username |-> req[r].username,
                                  password |-> req[r].password]}
    /\ Respond(r, [Resp("signup", 201, "created")
                      EXCEPT !.username = req[r].username,
                             !.password = req[r].password])
    /\ UNCHANGED <<variant, envSecret, clock, ticks, kvColors, kvFav,
                   kvCounter, jar, issued, posted>>

(* --------------------------- POST /api/login -------------------------- *)
LoginPcs == {"login_get", "login_verify", "login_sign"}

\* c.req.json()
LoginStart(r, username, password) ==
    /\ Serving /\ Idle(r)
    /\ Cardinality({tok \in DOMAIN issued : tok.sub = username})
         + Cardinality({q \in Reqs : /\ req[q].pc \in LoginPcs
                                     /\ req[q].username = username})
         < MaxTokens
    /\ Await(r, [IdleReq EXCEPT !.pc = "login_get",
                    !.before = Acknowledged(username),
                    !.username = username, !.password = password])
    /\ UNCHANGED <<variant, envSecret, clock, ticks, store, jar, issued, created,
                   posted>>

\* const userEntry = await kv.get(['users', username]); if (!user) 401
LoginGet(r) ==
    /\ req[r].pc = "login_get"
    /\ IF req[r].username \notin DOMAIN kvUsers
       THEN Respond(r, [Resp("login", 401,
                IF variant = "server" THEN "invalid" ELSE "invalid username")
                           EXCEPT !.username = req[r].username,
                                  !.password = req[r].password])
       ELSE Await(r, [req[r] EXCEPT !.pc = "login_verify",
                            !.user = kvUsers[req[r].username]])
    /\ UNCHANGED <<variant, envSecret, clock, ticks, store, jar, issued, created,
                   posted>>

\* the payload of the token: part_000 reads the clock for iat and again for
\* exp, server.js reads it once and sets no iat
Payload(sub, msIat, msExp) ==
    [sub |-> sub,
     iat |-> IF variant = "server" THEN 0 ELSE NowSec(msIat),
     exp |-> NowSec(msExp) + EXP_TIME,
     sig |-> ""]

\* await verify(password, user.hashedPassword); 401, or the payload is built
LoginVerify(r, drift) ==
    /\ req[r].pc = "login_verify"
    /\ IF ~verify(req[r].password, req[r].user.hashedPassword)
       THEN /\ Respond(r, [Resp("login", 401,
                IF variant = "server" THEN "invalid" ELSE "invalid password")
                              EXCEPT !.username = req[r].username,
                                     !.password = req[r].password])
            /\ drift = 0
       ELSE /\ Await(r, [req[r] EXCEPT !.pc = "login_sign",
                   !.payload = Payload(req[r].user.username,
                                       clock, clock + drift),
                   !.readAt = [iat |-> clock, exp |-> clock + drift]])
            /\ drift = 0 \/ variant = "part000"
    /\ clock' = clock + drift
    /\ UNCHANGED <<variant, envSecret, ticks, store, jar, issued, created,
                   posted>>

\* the cookie setCookie() sends: maxAge is EXP_TIME (60 * 60 * 24 in part_000)
SessionCookie(token) == [tok |-> token, maxAge |-> EXP_TIME]

\* const token = await sign(payload, JWT_SECRET); setCookie(...); 200
LoginSign(r) ==
    /\ req[r].pc = "login_sign"
    /\ issued' = KvSet(issued, sign(req[r].payload, JWT_SECRET), req[r].readAt)
    /\ jar' = SessionCookie(sign(req[r].payload, JWT_SECRET))
    /\ Respond(r, [Resp("login", 200, "login ok")
                      EXCEPT !.username = req[r].user.username,
                             !.password = req[r].password])
    /\ UNCHANGED <<variant, envSecret, clock, ticks, store, created, posted>>

(* ------------------- app.use('/api/*', jwt(...)) ---------------------- *)
\* the routes registered after the middleware, and the first run of each
Routes ==
    {"check", "logout", "colors_post", "colors_get", "favorites", "me", "users"}

\* a request for a protected route arrives with a cookie: 401 from the
\* middleware, or the handler is entered with jwtPayload set
Enter(r, route, tok, entered) ==
    /\ Serving /\ Idle(r)
    /\ IF Gate(tok)
       THEN Await(r, [entered EXCEPT !.pc = route, !.cookie = tok,
                           !.sub = tok.sub])
       ELSE /\ resp' = [Resp(route, 401, "Unauthorized")
                          EXCEPT !.slot = r, !.cookie = tok]
            /\ UNCHANGED req
    /\ UNCHANGED <<variant, envSecret, clock, ticks, store, jar, issued, created,
                   posted>>

CheckRequest(r, tok) == Enter(r, "check", tok, IdleReq)
LogoutRequest(r, tok) == Enter(r, "logout", tok, IdleReq)
ColorsGetRequest(r, tok) ==
    Enter(r, "colors_get", tok, [IdleReq EXCEPT !.before = posted])
MeRequest(r, tok) == Enter(r, "me", tok, IdleReq)
UsersRequest(r, tok) == Enter(r, "users", tok, IdleReq)

\* the handler invocations that have not yet answered a POST /api/colors
PostPcs == {"colors_post", "post_sum", "post_get", "post_set"}

ColorsPostRequest(r, tok, record) ==
    /\ Cardinality(posted)
         + Cardinality({q \in Reqs : req[q].pc \in PostPcs}) < MaxPosts
    /\ Enter(r, "colors_post", tok, [IdleReq EXCEPT !.record = record])

\* an id no record has
UnknownId == <<0>>

\* c.req.param('id'): the id of a stored record, or of none
IdParams ==
    IF variant = "server" THEN DOMAIN kvColors \cup {UnknownId} ELSE {NoId}

FavoritesRequest(r, tok, id) ==
    Enter(r, "favorites", tok,
          [IdleReq EXCEPT !.id = id, !.before = {<<tok.sub, id>>} \cap kvFav])

\* GET /api/check
Check(r) ==
    /\ req[r].pc = "check"
    /\ Respond(r, [Resp("check", 200, "") EXCEPT !.username = req[r].sub])
    /\ UNCHANGED <<variant, envSecret, clock, ticks, store, jar, issued, created,
                   posted>>

\* Logout with a fault: the cookie is not deleted
LogoutKeepsCookie(r) ==
    /\ req[r].pc = "logout"
    /\ Respond(r, Resp("logout", 204, ""))
    /\ UNCHANGED <<variant, envSecret, clock, ticks, store, jar, issued,
                   created, posted>>

\* POST /api/logout: deleteCookie(c, COOKIE_NAME); 204
Logout(r) ==
    /\ req[r].pc = "logout"
    /\ jar' = NoCookie
    /\ Respond(r, Resp("logout", 204, ""))
    /\ UNCHANGED <<variant, envSecret, clock, ticks, store, issued, created,
                   posted>>

(* --------------------------- POST /api/colors ------------------------- *)
\* new Date().toISOString(): a fixed-width text of the millisecond clock,
\* ordered as the clock is; kept as the millisecond count
toISOString(ms) == ms

\* ColorsPost with a fault: the author is stamped only when the client's
\* record has none
ColorsPostTrustsClient(r, drift) ==
    /\ req[r].pc = "colors_post"
    /\ LET author == IF req[r].record.author = "" THEN req[r].sub
                     ELSE req[r].record.author
       IN  IF variant = "server"
           THEN Await(r, [req[r] EXCEPT !.pc = "post_set",
                    !.id = toString(clock + drift),
                    !.record = [req[r].record EXCEPT !.author = author,
                                   !.createdAt = toISOString(clock),
                                   !.id = toString(clock + drift)]])
           ELSE /\ Await(r, [req[r] EXCEPT !.pc = "post_sum",
                       !.record = [req[r].record EXCEPT !.author = author,
                                      !.createdAt = toISOString(clock)]])
                /\ drift = 0
    /\ clock' = clock + drift
    /\ UNCHANGED <<variant, envSecret, ticks, store, jar, issued, created,
                   posted>>

\* after parseBody: author and createdAt are stamped; server.js also reads
\* Date.now() for the id, part_000 calls getNextId()
ColorsPost(r, drift) ==
    /\ req[r].pc = "colors_post"
    /\ IF variant = "server"
       THEN Await(r, [req[r] EXCEPT !.pc = "post_set",
                !.id = toString(clock + drift),
                !.record = [req[r].record EXCEPT !.author = req[r].sub,
                               !.createdAt = toISOString(clock),
                               !.id = toString(clock + drift)]])
       ELSE /\ Await(r, [req[r] EXCEPT !.pc = "post_sum",
                   !.record = [req[r].record EXCEPT !.author = req[r].sub,
                                  !.createdAt = toISOString(clock)]])
            /\ drift = 0
    /\ clock' = clock + drift
    /\ UNCHANGED <<variant, envSecret, ticks, store, jar, issued, created,
                   posted>>

\* getNextId: await kv.atomic().sum(key, 1n).commit()
PostSum(r) ==
    /\ req[r].pc = "post_sum"
    /\ kvCounter' = kvCounter + 1
    /\ Await(r, [req[r] EXCEPT !.pc = "post_get"])
    /\ UNCHANGED <<variant, envSecret, clock, ticks, kvUsers, kvColors, kvFav,
                   jar, issued, created, posted>>

\* getNextId: const counter = await kv.get(key); return Number(counter.value)
PostGet(r) ==
    /\ req[r].pc = "post_get"
    /\ Await(r, [req[r] EXCEPT !.pc = "post_set", !.id = kvCounter,
                       !.record = [req[r].record EXCEPT !.id = kvCounter]])
    /\ UNCHANGED <<variant, envSecret, clock, ticks, store, jar, issued, created,
                   posted>>

\* await kv.set(['colors', id], record); return c.json({ record })
PostSet(r) ==
    /\ req[r].pc = "post_set"
    /\ kvColors' = KvSet(kvColors, req[r].id, req[r].record)
    /\ posted' = posted \cup {req[r].record}
    /\ Respond(r, [Resp("colors_post",
                        IF variant = "server" THEN 200 ELSE 201, "")
                      EXCEPT !.record = req[r].record])
    /\ UNCHANGED <<variant, envSecret, clock, ticks, kvUsers, kvFav, kvCounter,
                   jar, issued, created>>

(* --------------------------- GET /api/colors -------------------------- *)
\* the first key of a non-empty key set in the store's key order
FirstKey(keys) == CHOOSE k \in keys : \A j \in keys \ {k} : KeyLess(k, j)

\* kv.list({prefix}): the values of a keyed collection in key order
RECURSIVE KvListFrom(_, _)
KvListFrom(kv, keys) ==
    IF keys = {} THEN <<>>
    ELSE <<kv[FirstKey(keys)]>> \o KvListFrom(kv, keys \ {FirstKey(keys)})

KvList(kv) == KvListFrom(kv, DOMAIN kv)

\* Array.prototype.reverse()
reverse(seq) == [i \in 1 .. Len(seq) |-> seq[Len(seq) + 1 - i]]

\* entry.value.isFavorite = !!fav.value, on the copy the iterator returned
WithFavorite(record, fav) ==
    [id |-> record.id, author |-> record.author, color |-> record.color,
     comment |-> record.comment, createdAt |-> record.createdAt,
     isFavorite |-> fav]

\* the list is read; part_000 answers with it reversed, server.js goes on to
\* look up the favorite flag of each entry
ColorsGet(r) ==
    /\ req[r].pc = "colors_get"
    /\ IF variant = "server" /\ kvColors # <<>>
       THEN Await(r, [req[r] EXCEPT !.pc = "colors_fav",
                            !.list = KvList(kvColors)])
       ELSE Respond(r, [Resp("colors_get", 200, "")
                           EXCEPT !.list = reverse(KvList(kvColors))])
    /\ UNCHANGED <<variant, envSecret, clock, ticks, store, jar, issued, created,
                   posted>>

\* ColorsFav with a fault: the entry is stored back with its flag
ColorsFavWritesBack(r) ==
    /\ req[r].pc = "colors_fav"
    /\ LET entry == req[r].list[Len(req[r].records) + 1]
           shown == WithFavorite(entry, <<req[r].sub, entry.id>> \in kvFav)
           records == Append(req[r].records, shown)
       IN  /\ kvColors' = KvSet(kvColors, entry.id, shown)
           /\ IF Len(records) = Len(req[r].list)
              THEN Respond(r, [Resp("colors_get", 200, "")
                                  EXCEPT !.list = reverse(records)])
              ELSE Await(r, [req[r] EXCEPT !.records = records])
    /\ UNCHANGED <<variant, envSecret, clock, ticks, kvUsers, kvFav, kvCounter,
                   jar, issued, created, posted>>

\* const fav = await kv.get(['favorites', username, entry.value.id]) for the
\* next entry; after the last one, c.json(records.reverse())
ColorsFav(r) ==
    /\ req[r].pc = "colors_fav"
    /\ LET entry == req[r].list[Len(req[r].records) + 1]
           records == Append(req[r].records,
                        WithFavorite(entry, <<req[r].sub, entry.id>> \in kvFav))
       IN  IF Len(records) = Len(req[r].list)
           THEN Respond(r, [Resp("colors_get", 200, "")
                               EXCEPT !.list = reverse(records)])
           ELSE Await(r, [req[r] EXCEPT !.records = records])
    /\ UNCHANGED <<variant, envSecret, clock, ticks, store, jar, issued, created,
                   posted>>

(* ------------------------ POST /api/favorites/:id --------------------- *)
\* const existing = await kv.get(key); part_000 has no such route
Favorites(r) ==
    /\ req[r].pc = "favorites"
    /\ IF variant = "server"
       THEN Await(r, [req[r] EXCEPT !.pc = "fav_write",
                !.existing = (<<req[r].sub, req[r].id>> \in kvFav)])
       ELSE Respond(r, Resp("favorites", 404, "Not Found"))
    /\ UNCHANGED <<variant, envSecret, clock, ticks, store, jar, issued, created,
                   posted>>

\* FavWrite with a fault: the entry is set whatever was read
FavWriteAlwaysSets(r) ==
    /\ req[r].pc = "fav_write"
    /\ kvFav' = kvFav \cup {<<req[r].sub, req[r].id>>}
    /\ Respond(r, [Resp("favorites", 200, "")
                      EXCEPT !.favorite = ~req[r].existing, !.id = req[r].id,
                             !.username = req[r].sub])
    /\ UNCHANGED <<variant, envSecret, clock, ticks, kvUsers, kvColors,
                   kvCounter, jar, issued, created, posted>>

\* FavWrite with a fault: the answer is what was read, not what was written
FavWriteAnswersRead(r) ==
    /\ req[r].pc = "fav_write"
    /\ kvFav' = IF req[r].existing
                THEN kvFav \ {<<req[r].sub, req[r].id>>}
                ELSE kvFav \cup {<<req[r].sub, req[r].id>>}
    /\ Respond(r, [Resp("favorites", 200, "")
                      EXCEPT !.favorite = req[r].existing, !.id = req[r].id,
                             !.username = req[r].sub])
    /\ UNCHANGED <<variant, envSecret, clock, ticks, kvUsers, kvColors,
                   kvCounter, jar, issued, created, posted>>

\* await kv.delete(key), {favorite: false}; or await kv.set(key, true),
\* {favorite: true}
FavWrite(r) ==
    /\ req[r].pc = "fav_write"
    /\ kvFav' = IF req[r].existing
                THEN kvFav \ {<<req[r].sub, req[r].id>>}
                ELSE kvFav \cup {<<req[r].sub, req[r].id>>}
    /\ Respond(r, [Resp("favorites", 200, "")
                      EXCEPT !.favorite = ~req[r].existing, !.id = req[r].id,
                             !.username = req[r].sub])
    /\ UNCHANGED <<variant, envSecret, clock, ticks, kvUsers, kvColors,
                   kvCounter, jar, issued, created, posted>>

(* ------------------------------ GET /api/me --------------------------- *)
\* Me with a fault: the favorite ids of every user are collected
MeAnyUser(r) ==
    /\ req[r].pc = "me"
    /\ IF variant = "server"
       THEN Await(r, [req[r] EXCEPT !.pc = "me_scan",
                !.favIds = {f[2] : f \in kvFav}])
       ELSE Respond(r, Resp("me", 404, "Not Found"))
    /\ UNCHANGED <<variant, envSecret, clock, ticks, store, jar, issued, created,
                   posted>>

\* for await (const f of favList) favIds.add(f.key[2]); part_000 has no
\* such route
Me(r) ==
    /\ req[r].pc = "me"
    /\ IF variant = "server"
       THEN Await(r, [req[r] EXCEPT !.pc = "me_scan",
                !.favIds = {f[2] : f \in {g \in kvFav : g[1] = req[r].sub}}])
       ELSE Respond(r, Resp("me", 404, "Not Found"))
    /\ UNCHANGED <<variant, envSecret, clock, ticks, store, jar, issued, created,
                   posted>>

\* for await (const entry of allList) ...; c.json({ myPosts, myFavorites })
MeScan(r) ==
    /\ req[r].pc = "me_scan"
    /\ Respond(r, [Resp("me", 200, "") EXCEPT
          !.myPosts = SelectSeq(KvList(kvColors),
                                LAMBDA e : e.author = req[r].sub),
          !.myFavorites = SelectSeq(KvList(kvColors),
                                    LAMBDA e : e.id \in req[r].favIds)])
    /\ UNCHANGED <<variant, envSecret, clock, ticks, store, jar, issued, created,
                   posted>>

(* ----------------------------- GET /api/users ------------------------- *)
\* the user names in the store's key order
NameOrder == <<"", "alice", "bob">>

\* part_000 lists the user names; server.js has no such route
UsersList(r) ==
    /\ req[r].pc = "users"
    /\ IF variant = "part000"
       THEN Respond(r, [Resp("users", 200, "") EXCEPT
                !.list = SelectSeq(NameOrder, LAMBDA u : u \in DOMAIN kvUsers)])
       ELSE Respond(r, Resp("users", 404, "Not Found"))
    /\ UNCHANGED <<variant, envSecret, clock, ticks, store, jar, issued, created,
                   posted>>

(* --------------------------- the specification ------------------------ *)
\* the runs of the handlers of each route, over the inputs given
ClockStep(steps) == \E d \in steps : Tick(d)

SignupStep(slots, usernames, passwords, salts) ==
    \/ \E r \in slots, u \in usernames, p \in passwords : SignupStart(r, u, p)
    \/ \E r \in slots : SignupGet(r)
    \/ \E r \in slots, salt \in salts : SignupHash(r, salt)
    \/ \E r \in slots : SignupSet(r)

LoginStep(slots, usernames, passwords, drifts) ==
    \/ \E r \in slots, u \in usernames, p \in passwords : LoginStart(r, u, p)
    \/ \E r \in slots : LoginGet(r)
    \/ \E r \in slots, d \in drifts : LoginVerify(r, d)
    \/ \E r \in slots : LoginSign(r)

CheckStep(slots) ==
    \/ \E r \in slots, tok \in Cookies : CheckRequest(r, tok)
    \/ \E r \in slots : Check(r)

LogoutStep(slots) ==
    \/ \E r \in slots, tok \in Cookies : LogoutRequest(r, tok)
    \/ \E r \in slots : Logout(r)

ColorsPostStep(slots, records, drifts) ==
    \/ \E r \in slots, tok \in Cookies, record \in records :
          ColorsPostRequest(r, tok, record)
    \/ \E r \in slots, d \in drifts : ColorsPost(r, d)
    \/ \E r \in slots : PostSum(r)
    \/ \E r \in slots : PostGet(r)
    \/ \E r \in slots : PostSet(r)

ColorsGetStep(slots) ==
    \/ \E r \in slots, tok \in Cookies : ColorsGetRequest(r, tok)
    \/ \E r \in slots : ColorsGet(r)
    \/ \E r \in slots : ColorsFav(r)

FavoritesStep(slots) ==
    \/ \E r \in slots, tok \in Cookies, id \in IdParams :
          FavoritesRequest(r, tok, id)
    \/ \E r \in slots : Favorites(r)
    \/ \E r \in slots : FavWrite(r)

MeStep(slots) ==
    \/ \E r \in slots, tok \in Cookies : MeRequest(r, tok)
    \/ \E r \in slots : Me(r)
    \/ \E r \in slots : MeScan(r)

UsersStep(slots) ==
    \/ \E r \in slots, tok \in Cookies : UsersRequest(r, tok)
    \/ \E r \in slots : UsersList(r)

\* one client record, one account: enough to hold a session
OneRecord == {[NoRecord EXCEPT !.color = "red", !.comment = "x"]}
OneAccount(slots) == SignupStep(slots, {"alice"}, {"pw1"}, {"s1"})
OneLogin(slots) == LoginStep(slots, {"alice"}, {"pw1"}, Drifts)

\* the service started with JWT_SECRET set in its environment
InitWithSecret == Init /\ envSecret # ""

\* every route, its requests served one after the other by one handler
\* invocation at a time, with a clock that can pass a token's exp
Next ==
    \/ ClockStep({EXP_TIME * MsPerSec})
    \/ SignupStep({1}, {"alice"}, {"pw1"}, {"s1"})
    \/ LoginStep({1}, {"alice"}, {"pw1", "pw2"}, {0})
    \/ CheckStep({1})
    \/ LogoutStep({1})
    \/ ColorsPostStep({1}, OneRecord, {0})
    \/ ColorsGetStep({1})
    \/ FavoritesStep({1})
    \/ MeStep({1})
    \/ UsersStep({1})

Spec == InitWithSecret /\ [][Next]_vars

\* concurrent signups and logins over every username and password
NextAccounts ==
    \/ SignupStep(Reqs, Users, Passwords, Salts)
    \/ LoginStep(Reqs, Users, Passwords, Drifts)

SpecAccounts == InitWithSecret /\ [][NextAccounts]_vars

\* sessions checked, one request at a time, while the clock moves towards
\* and past their expiry
NextExpiry ==
    \/ ClockStep(TickSteps)
    \/ OneAccount({1})
    \/ OneLogin({1})
    \/ CheckStep({1})

SpecExpiry == InitWithSecret /\ [][NextExpiry]_vars

\* concurrent posts and listings under a millisecond clock
NextColors ==
    \/ ClockStep({1})
    \/ OneAccount(Reqs)
    \/ OneLogin(Reqs)
    \/ ColorsPostStep(Reqs, ClientRecords, Drifts)
    \/ ColorsGetStep(Reqs)

SpecColors == InitWithSecret /\ [][NextColors]_vars

\* concurrent toggles and listings, after a signup, a login and posts
\* served one at a time
NextFavorites ==
    \/ OneAccount({1})
    \/ LoginStep({1}, {"alice"}, {"pw1"}, {0})
    \/ ColorsPostStep({1}, OneRecord, {0})
    \/ ColorsGetStep(Reqs)
    \/ FavoritesStep(Reqs)

SpecFavorites == InitWithSecret /\ [][NextFavorites]_vars

\* the sessions of the users the other of two slots is not serving
SessionsBeside(other) == {tok \in DOMAIN issued : tok.sub # req[other].sub}

\* the views of two users: each user's requests are served one after the
\* other, while the other user's toggles run in between; signups, logins,
\* posts, listings and pages are served on slot 1, toggles on both slots
NextViews ==
    \/ ClockStep({1})
    \/ SignupStep({1}, Users, {"pw1"}, {"s1"})
    \/ LoginStep({1}, Users, {"pw1"}, {0})
    \/ \E tok \in SessionsBeside(2), record \in OneRecord :
          ColorsPostRequest(1, tok, record)
    \/ ColorsPost(1, 0)
    \/ PostSum(1)
    \/ PostGet(1)
    \/ PostSet(1)
    \/ \E tok \in SessionsBeside(2) : ColorsGetRequest(1, tok)
    \/ ColorsGet(1)
    \/ ColorsFav(1)
    \/ \E tok \in SessionsBeside(2) : MeRequest(1, tok)
    \/ Me(1)
    \/ MeScan(1)
    \/ \E r \in {1, 2} :
          \E tok \in SessionsBeside(3 - r), id \in IdParams :
             FavoritesRequest(r, tok, id)
    \/ \E r \in {1, 2} : Favorites(r)
    \/ \E r \in {1, 2} : FavWrite(r)

SpecViews == InitWithSecret /\ [][NextViews]_vars

\* every user holds a session
BothIn == \A u \in Users : \E tok \in DOMAIN issued : tok.sub = u

\* the pages of two users, their requests served one after the other: both
\* sign up and log in, then they post, toggle and open their pages; the
\* clock moves between the two clock reads of a post
NextPages ==
    \/ ~BothIn /\ SignupStep({1}, Users, {"pw1"}, {"s1"})
    \/ ~BothIn /\ LoginStep({1}, Users, {"pw1"}, {0})
    \/ BothIn /\ ColorsPostStep({1}, OneRecord, {0, 1})
    \/ BothIn /\ FavoritesStep({1})
    \/ BothIn /\ MeStep({1})

SpecPages == InitWithSecret /\ [][NextPages]_vars

\* signups and logins whose fields can be empty or missing, served one
\* after the other
NextSignup ==
    \/ SignupStep({1}, UserInputs, PasswordInputs, {"s1"})
    \/ LoginStep({1}, UserInputs, PasswordInputs, {0})

SpecSignup == InitWithSecret /\ [][NextSignup]_vars

\* the service started with or without JWT_SECRET in its environment: a
\* signup, logins, checks and logouts, served one after the other
NextStartup ==
    \/ OneAccount({1})
    \/ OneLogin({1})
    \/ CheckStep({1})
    \/ LogoutStep({1})

SpecStartup == Init /\ [][NextStartup]_vars

\* posts of one user, served one after the other under a millisecond clock,
\* whose records can carry an id, an author and a createdAt of their own
NextPosts ==
    \/ ClockStep({1})
    \/ OneAccount({1})
    \/ LoginStep({1}, {"alice"}, {"pw1"}, {0})
    \/ ColorsPostStep({1}, ClientRecords, Drifts)

SpecPosts == InitWithSecret /\ [][NextPosts]_vars

(* ------------------------------- claims -------------------------------- *)
\* handler invocation r answers in this step, from where it was suspended
Answers(r, pc) == req[r].pc = pc /\ req'[r].pc = "idle" /\ resp'.slot = r

\* a request for a protected route arrives at idle slot r in this step and
\* the middleware lets it in, or answers it
Admitted(r, route) == Idle(r) /\ req'[r].pc = route
Refused(r, route) ==
    Idle(r) /\ req'[r].pc = "idle" /\ resp'.slot = r /\ resp'.route = route

\* a token the service signed, not yet expired at clock value ms
ValidSession(tok, ms) == tok \in DOMAIN issued /\ NowSec(ms) < tok.exp

\* C1 (as claimed): a POST /api/colors that completes is assigned an id that
\* no post completed before it was assigned, in both variants.
C1_DistinctIds ==
    [][\A r \in Reqs :
          Answers(r, "post_set") => \A p \in posted : p.id # req[r].id]_vars

\* C2 (as claimed): of the signups for one username at most one is answered
\* 201: no signup is answered 201 for a username the store already holds.
C2_OneSignupWins ==
    [][\A r \in Reqs :
          Answers(r, "signup_set") => req[r].username \notin DOMAIN kvUsers]_vars

\* C3: a handler behind the middleware is entered only by a request whose
\* cookie is a token the service signed and that has not expired, with that
\* token's subject as jwtPayload.sub; a request the middleware answers
\* itself gets 401, had no such cookie, and leaves the store as it was.
C3_GateGuardsRoutes ==
    [][\A r \in Reqs, route \in Routes :
          /\ Admitted(r, route) =>
                /\ ValidSession(req'[r].cookie, clock)
                /\ req'[r].sub = req'[r].cookie.sub
          /\ Refused(r, route) =>
                /\ resp'.status = 401
                /\ ~ValidSession(resp'.cookie, clock)
                /\ store' = store]_vars

\* C3 witness: a request carrying a token the service signed, now expired,
\* was answered 401 on a route behind the middleware.
C3_Witness ==
    /\ resp.route = "colors_post" /\ resp.status = 401
    /\ resp.cookie \in DOMAIN issued

\* C4 (as claimed): a check is let in by the middleware exactly when it
\* arrives strictly before the millisecond the token was issued plus
\* EXP_TIME seconds.
C4_ExactLifetime ==
    [][\A r \in Reqs :
          LET tok == IF Admitted(r, "check") THEN req'[r].cookie
                     ELSE resp'.cookie
          IN  (Admitted(r, "check") \/ Refused(r, "check"))
                 /\ tok \in DOMAIN issued
              => (Admitted(r, "check")
                    <=> clock < issued[tok].iat + EXP_TIME * MsPerSec)]_vars

\* C4 (amended): a check is let in exactly when the whole second of its
\* arrival is before the whole second of the clock read that computed exp,
\* plus EXP_TIME.
C4_LifetimeInWholeSeconds ==
    [][\A r \in Reqs :
          LET tok == IF Admitted(r, "check") THEN req'[r].cookie
                     ELSE resp'.cookie
          IN  (Admitted(r, "check") \/ Refused(r, "check"))
                 /\ tok \in DOMAIN issued
              => (Admitted(r, "check")
                    <=> NowSec(clock) < NowSec(issued[tok].exp) + EXP_TIME)]_vars

\* C4 witness: a token is refused in the very second of its exp.
C4_Witness ==
    /\ resp.route = "check" /\ resp.status = 401
    /\ resp.cookie \in DOMAIN issued
    /\ NowSec(clock) = NowSec(issued[resp.cookie].exp) + EXP_TIME

\* C5 (as claimed): a login with a username and password whose signup had
\* been answered 201 when it arrived is answered 200, and a signup for a
\* username whose signup had been answered 201 when it arrived is answered
\* 409.
C5_SignupThenLogin ==
    /\ resp.route = "login"
          /\ [username |-> resp.username, password |-> resp.password]
                \in resp.before
       => resp.status = 200
    /\ resp.route = "signup" /\ resp.before # {} => resp.status = 409

\* C6 (as claimed): a user entry, once stored, keeps its password hash.
C6_HashImmutable ==
    [][\A u \in DOMAIN kvUsers :
          /\ u \in DOMAIN kvUsers'
          /\ kvUsers'[u].hashedPassword = kvUsers[u].hashedPassword]_vars

\* the record a listing shows for a stored record
SameRecord(shown, record) ==
    /\ shown.id = record.id /\ shown.author = record.author
    /\ shown.color = record.color /\ shown.comment = record.comment
    /\ shown.createdAt = record.createdAt

\* C7 (as claimed): a GET /api/colors lists, unchanged, every record that
\* POST /api/colors had responded with when the GET arrived.
C7_PostedRecordsStay ==
    resp.route = "colors_get" /\ resp.status = 200
    => \A record \in resp.before :
          \E i \in 1 .. Len(resp.list) : SameRecord(resp.list[i], record)

\* C8 (as claimed): a GET /api/colors lists its records newest first by
\* createdAt.
C8_NewestFirst ==
    resp.route = "colors_get" /\ resp.status = 200
    => \A i, j \in 1 .. Len(resp.list) :
          i < j => resp.list[i].createdAt >= resp.list[j].createdAt

\* C9: with requests served one after the other, a toggle that arrives when
\* the entry is absent returns true and one that arrives when it is present
\* returns false, so two calls in a row return true, then false; after each
\* the entry is present exactly when the call returned true, and a listing
\* for the user shows every record's isFavorite as the entry's presence.
C9_ToggleTwice ==
    /\ resp.route = "favorites" /\ resp.status = 200
       => /\ resp.favorite = (resp.before = {})
          /\ (<<resp.cookie.sub, resp.id>> \in kvFav) = resp.favorite
    /\ resp.route = "colors_get" /\ resp.status = 200 /\ variant = "server"
       => \A i \in 1 .. Len(resp.list) :
             resp.list[i].isFavorite
                = (<<resp.cookie.sub, resp.list[i].id>> \in kvFav)

\* C9 witness: the second of two toggles of a stored record has returned
\* false.
C9_Witness ==
    /\ resp.route = "favorites" /\ resp.status = 200
    /\ ~resp.favorite /\ resp.before # {}
    /\ resp.id \in DOMAIN kvColors

\* C10: under any interleaving, the value a toggle returns is the presence
\* of the entry right after that toggle's own write.
C10_ToggleReturnsItsWrite ==
    resp.route = "favorites" /\ resp.status = 200
    => (<<resp.cookie.sub, resp.id>> \in kvFav) = resp.favorite

\* C10 witness: a toggle has returned true while a concurrent toggle of the
\* same entry, which read it absent too, has yet to write.
C10_Witness ==
    /\ resp.route = "favorites" /\ resp.status = 200 /\ resp.favorite
    /\ \E q \in Reqs :
          /\ q # resp.slot /\ req[q].pc = "fav_write" /\ ~req[q].existing
          /\ req[q].sub = resp.cookie.sub /\ req[q].id = resp.id

\* C11 (as claimed): a GET /api/colors for user u lists every stored record,
\* each with an isFavorite flag that is true exactly when u has a favorite
\* entry for it, whatever entries other users have toggled meanwhile.
C11_OwnFavoritesOnly ==
    resp.route = "colors_get" /\ resp.status = 200
    => /\ \A id \in DOMAIN kvColors :
             \E i \in 1 .. Len(resp.list) :
                SameRecord(resp.list[i], kvColors[id])
       /\ \A i \in 1 .. Len(resp.list) :
             /\ "isFavorite" \in DOMAIN resp.list[i]
             /\ resp.list[i].isFavorite
                   = (<<resp.cookie.sub, resp.list[i].id>> \in kvFav)

\* the elements of a sequence
Range(seq) == {seq[i] : i \in 1 .. Len(seq)}

\* the stored records whose key satisfies a condition
StoredWhere(Cond(_)) == {kvColors[id] : id \in {k \in DOMAIN kvColors : Cond(k)}}

\* C12: GET /api/me for user u answers with myPosts holding exactly the
\* stored records whose author is u and myFavorites holding exactly the stored
\* records for whose id u has a favorite entry, each once; an entry for an id
\* no record has adds nothing.
C12_MyPage ==
    resp.route = "me" /\ resp.status = 200
    => /\ Range(resp.myPosts)
             = StoredWhere(LAMBDA k : kvColors[k].author = resp.cookie.sub)
       /\ Len(resp.myPosts) = Cardinality(Range(resp.myPosts))
       /\ Range(resp.myFavorites)
             = StoredWhere(LAMBDA k : <<resp.cookie.sub, k>> \in kvFav)
       /\ Len(resp.myFavorites) = Cardinality(Range(resp.myFavorites))

\* C12 witness: a page was answered that leaves out another user's record
\* and another user's favorite, while its user holds a favorite entry for an
\* id no record has.
C12_Witness ==
    /\ resp.route = "me" /\ resp.status = 200
    /\ \E id \in DOMAIN kvColors : kvColors[id].author # resp.cookie.sub
    /\ \E f \in kvFav :
          /\ f[1] # resp.cookie.sub /\ f[2] \in DOMAIN kvColors
          /\ <<resp.cookie.sub, f[2]>> \notin kvFav
    /\ \E f \in kvFav : f[1] = resp.cookie.sub /\ f[2] \notin DOMAIN kvColors
    /\ Len(resp.myPosts) > 0

\* C13 (as claimed): failed logins are answered alike: when two logins are
\* refused one right after the other, whether for a username that is not
\* stored or for a wrong password, both get status 401 and the same message.
C13_UniformLoginFailure ==
    [][/\ resp.route = "login" /\ resp.status # 200
       /\ resp'.route = "login" /\ resp'.status # 200
       => /\ resp.status = 401 /\ resp'.status = 401
          /\ resp'.message = resp.message]_vars

\* C14 (as claimed): a POST /api/favorites/:id whose id no stored record has
\* is answered without error and changes nothing in the store.
C14_UnknownIdNoOp ==
    [][\A r \in Reqs :
          Answers(r, "fav_write") /\ req[r].id \notin DOMAIN kvColors
          => resp'.status = 200 /\ store' = store]_vars

\* C15 (as claimed): a signup whose username or password is empty or
\* missing is answered 400 and leaves the store as it was, in both variants.
C15_EmptyFieldsRejected ==
    [][resp'.route = "signup" /\ (resp'.username = "" \/ resp'.password = "")
       => resp'.status = 400 /\ store' = store]_vars

\* C16: a POST /api/logout that is served answers 204 and leaves the client
\* without its session cookie; the client stays without one until a login is
\* answered 200; and while it has none, every request it sends to a route
\* behind the middleware is answered 401 and enters no handler.
C16_LogoutEndsSession ==
    [][/\ \A r \in Reqs :
             Answers(r, "logout") => resp'.status = 204 /\ jar' = NoCookie
       /\ jar = NoCookie /\ jar' # NoCookie
          => resp'.route = "login" /\ resp'.status = 200
       /\ \A r \in Reqs, route \in Routes :
             /\ jar = NoCookie /\ Admitted(r, route)
                => req'[r].cookie # jar.tok
             /\ jar = NoCookie /\ Refused(r, route) /\ resp'.cookie = jar.tok
                => resp'.status = 401]_vars

\* C16 witness: after a login and a logout, a request without a cookie was
\* answered 401 by the middleware.
C16_Witness ==
    /\ resp.route \in Routes /\ resp.status = 401
    /\ resp.cookie = NoToken /\ jar = NoCookie
    /\ issued # <<>>

\* a request has reached the service: a handler is suspended, a response was
\* sent or a token was signed
Served == resp # NoResp \/ issued # <<>> \/ \E r \in Reqs : ~Idle(r)

ServerId(id) ==
    IF variant = "server"
    THEN \E ms \in Clock0 .. clock : id = toString(ms)
    ELSE id \in 1 .. kvCounter

\* C18: the record a POST /api/colors stores has the subject of the
\* request's validated token as author, a clock read of the service as
\* createdAt and an id the service assigned, also when the client's record
\* carried an author, a createdAt and an id; and so has every stored record.
C18_ServerStamped ==
    [][/\ \A r \in Reqs :
             Answers(r, "post_set")
             => /\ req[r].id \in DOMAIN kvColors'
                /\ kvColors'[req[r].id] = resp'.record
                /\ resp'.record.author = req[r].cookie.sub
                /\ req[r].cookie \in DOMAIN issued
       /\ \A id \in DOMAIN kvColors' :
             /\ kvColors'[id].id = id /\ ServerId(id)'
             /\ kvColors'[id].createdAt \in Clock0 .. clock'
             /\ \E tok \in DOMAIN issued : tok.sub = kvColors'[id].author]_vars

\* C18 witness: a post whose record carried an id, an author and a createdAt
\* of the client's choosing was stored and answered.
C18_Witness ==
    /\ resp.route = "colors_post" /\ resp.status \in {200, 201}
    /\ resp.record.color = "blue"
    /\ resp.record.id \in DOMAIN kvColors

\* C19 (as claimed): the maxAge of the cookie a login sets is the lifetime
\* of the token in it, exp minus the second of issue, also when the clock
\* moves between the clock reads that build the payload.
C19_CookieMatchesToken ==
    jar # NoCookie
    => jar.maxAge = jar.tok.exp - NowSec(issued[jar.tok].iat)

\* where the handlers of GET /api/check, GET /api/colors and GET /api/me
\* are suspended, and their routes
GetPcs == {"check", "colors_get", "colors_fav", "me", "me_scan"}
GetRoutes == {"check", "colors_get", "me"}

\* C20: no step of a GET /api/colors, a GET /api/me or a GET /api/check, from
\* the arrival of the request to its response, changes the users, the color
\* records, the favorite entries or the counter; no stored record carries
\* the isFavorite flag of a listing.
C20_ReadsLeaveStore ==
    [][/\ \A r \in Reqs :
             (\/ req[r].pc \in GetPcs /\ req'[r] # req[r]
              \/ \E route \in GetRoutes :
                    Admitted(r, route) \/ Refused(r, route))
             => store' = store
       /\ \A id \in DOMAIN kvColors' :
             "isFavorite" \notin DOMAIN kvColors'[id]]_vars

\* C20 witness: a listing was answered with a record flagged as favorite,
\* and the stored record carries no flag.
C20_Witness ==
    /\ resp.route = "colors_get" /\ resp.status = 200
    /\ \E i \in 1 .. Len(resp.list) :
          /\ "isFavorite" \in DOMAIN resp.list[i] /\ resp.list[i].isFavorite
          /\ "isFavorite" \notin DOMAIN kvColors[resp.list[i].id]

====
